---- MODULE Spec2Model ----
(***************************************************************************)
(* State-machine model of react-outside-click-listener                     *)
(* (src/src/OutsideClickListener/OutsideClickListener.tsx).                *)
(*                                                                         *)
(* One OutsideClickListener instance lives in a small DOM tree.  The host  *)
(* (React and the browser) mounts and unmounts it, re-renders it with new  *)
(* props, attaches the child's node through the ref callback, changes what *)
(* an id / a RefObject resolves to, and dispatches events.  A re-render is *)
(* one step: render, commit of refs and the run of the effects.            *)
(***************************************************************************)
EXTENDS Integers, Sequences, FiniteSets

(***************************************************************************)
(* The DOM tree: elements 1..NumNodes, element n's parent is n \div 2,     *)
(* element 1 is the root element; above it the document and the window.    *)
(***************************************************************************)
NumNodes == 5

Null == 0

Nodes == 1..NumNodes

Document == NumNodes + 1

Window == NumNodes + 2

\* A RefObject whose current is not an Element, seen as a value (getNode
\* returns the reference itself in that case).
RefObject == NumNodes + 3

Targets == Nodes \cup {Document, Window}

\* el.parentElement
ParentElement(n) == IF n \in Nodes /\ n > 1 THEN n \div 2 ELSE Null

RECURSIVE Contains(_, _)
\* a.contains(b), for elements a and b: b is a or a descendant of a
Contains(a, b) ==
  IF b = a THEN TRUE
  ELSE IF ParentElement(b) = Null THEN FALSE
  ELSE Contains(a, ParentElement(b))

\* el.nodeName.toLowerCase()
TagOf(n) == IF n % 3 = 2 THEN "li" ELSE "div"

\* the elements carrying class "menu-item"
MenuItems == {n \in Nodes : n % 4 \in {2, 3}}

\* el.matches(selectors)
Matches(n, sel) ==
  CASE sel = ".menu-item" -> n \in MenuItems
    [] sel = "li" -> TagOf(n) = "li"
    [] OTHER -> FALSE

(***************************************************************************)
(* Prop values.                                                            *)
(***************************************************************************)
\* topNode / ignoreTopNode: undefined or null, an id, a RefObject, an Element
NoRef == [kind |-> "none", id |-> "", node |-> Null]

IdRef(s) == [kind |-> "id", id |-> s, node |-> Null]

ObjRef == [kind |-> "ref", id |-> "", node |-> Null]

NodeRef(n) == [kind |-> "node", id |-> "", node |-> n]

TopNodeChoices == {NoRef, IdRef("top"), IdRef(""), ObjRef, NodeRef(1)}

IgnoreTopNodeChoices == {NoRef, IdRef("top"), ObjRef, NodeRef(NumNodes)}

\* ignore: undefined, a selector string, a tag -> selector map, a predicate.
\* A map is a function from its keys to a selector or to "undefined"; a
\* predicate is given by the set of elements it returns true for.
NoTags == [t \in {} |-> ""]

NoIgnore == [kind |-> "none", sel |-> "", map |-> NoTags, sat |-> {}]

SelIgnore(s) == [kind |-> "sel", sel |-> s, map |-> NoTags, sat |-> {}]

MapIgnore(m) == [kind |-> "map", sel |-> "", map |-> m, sat |-> {}]

FnIgnore(S) == [kind |-> "fn", sel |-> "", map |-> NoTags, sat |-> S]

IgnoreChoices ==
  { NoIgnore,
    SelIgnore(".menu-item"),
    MapIgnore([t \in {"li", "div"} |-> IF t = "li" THEN "undefined" ELSE ".menu-item"]),
    FnIgnore(MenuItems) }

EventKinds == {"mousedown", "touchstart", "blur"}

EventsChoices == {{"mousedown", "touchstart"}, {"mousedown", "blur"}}

\* the node the child element renders and hands to its ref (Null: none)
ChildChoices == {Null, 2, 4}

\* what the id "top" and the RefObject's current resolve to (Null: nothing)
TopElChoices == {Null, 2, 3}

\* the holders a child element's own ref may be: a ref callback, a ref object
RefHolders == {"callback", "object"}

\* children.ref: none, or one of the holders
ChildRefChoices == {"none"} \cup RefHolders

\* the rules and the stop nodes findUp is applied to
FindUpRules ==
  { SelIgnore(".menu-item"),
    SelIgnore("li"),
    MapIgnore([t \in {"li", "div"} |-> IF t = "li" THEN "undefined" ELSE ".menu-item"]),
    MapIgnore([t \in {"div"} |-> "undefined"]),
    MapIgnore([t \in {"li"} |-> ".menu-item"]) }

FindUpStops == Nodes \cup {Null, RefObject}

DefaultProps ==
  [ disabled |-> FALSE,
    onOutsideClick |-> "cb1",
    events |-> {"mousedown", "touchstart"},
    stopPropagation |-> TRUE,
    topNode |-> NoRef,
    ignore |-> NoIgnore,
    ignoreTopNode |-> NoRef,
    windowBlurAsOutsideClick |-> FALSE ]

VARIABLES
  mounted,              \* the component is mounted
  props,                \* the props of the last render
  childNode,            \* the node the child hands to its ref
  topEl,                \* the element with id "top" / held by the RefObject
  selfNodeRef,          \* selfNodeRef.current
  ignoreRef,            \* ignoreRef.current
  outsideClickHandler,  \* the memoized handler: the values it closed over
  effect,               \* what the effect's cleanup closed over
  listeners,            \* the registered listeners: (target, type, handler)
  ev,                   \* the last event dispatched and what it did
  warnings,             \* console.warn calls of the last step
  thrown,               \* the last step threw
  childRef,             \* children.ref: which holder the child element carries
  held,                 \* what each holder was last given / holds in .current
  found                 \* the last application of findUp and its result

vars ==
  << mounted, props, childNode, topEl, selfNodeRef, ignoreRef,
     outsideClickHandler, effect, listeners, ev, warnings, thrown,
     childRef, held, found >>

(***************************************************************************)
(* Helpers of the component.                                               *)
(***************************************************************************)
\* JavaScript truthiness of a topNode / ignoreTopNode value (`topNode ? ...`)
Truthy(ref) == ref.kind # "none" /\ ~(ref.kind = "id" /\ ref.id = "")

\* JavaScript truthiness of an ignore value (`eventSourceNode && ignoreMapOrFn`)
IgnoreTruthy(rule) == rule.kind # "none" /\ ~(rule.kind = "sel" /\ rule.sel = "")

\* document.getElementById(id)
GetElementById(id) == IF id = "top" THEN topEl ELSE Null

\* getNode: the resolved element, Null, or the reference itself when it is
\* a RefObject whose current is not an Element
getNode(node) ==
  CASE node.kind = "id" -> GetElementById(node.id)
    [] node.kind = "ref" -> IF topEl # Null THEN topEl ELSE RefObject
    [] OTHER -> node.node

\* what a call of getNode does besides returning: it warns for an unknown id
getNodeLog(node, what) ==
  IF node.kind = "id" /\ GetElementById(node.id) = Null
  THEN <<what, "warn">>
  ELSE <<what>>

RECURSIVE findUp_StopBeforeTest(_, _, _)
\* mutant: the stop node ends the walk before it is tested
findUp_StopBeforeTest(el, mapOrSelectors, topNode) ==
  LET tag == TagOf(el)
      hit == IF mapOrSelectors.kind = "sel"
             THEN Matches(el, mapOrSelectors.sel)
             ELSE /\ tag \in DOMAIN mapOrSelectors.map
                  /\ \/ mapOrSelectors.map[tag] = "undefined"
                     \/ Matches(el, mapOrSelectors.map[tag])
  IN IF el = topNode THEN FALSE
     ELSE IF hit THEN TRUE
     ELSE IF ParentElement(el) = Null THEN FALSE
     ELSE findUp_StopBeforeTest(ParentElement(el), mapOrSelectors, topNode)

RECURSIVE findUp(_, _, _)
findUp(el, mapOrSelectors, topNode) ==
  LET tag == TagOf(el)
      hit == IF mapOrSelectors.kind = "sel"
             THEN Matches(el, mapOrSelectors.sel)
             ELSE /\ tag \in DOMAIN mapOrSelectors.map
                  /\ \/ mapOrSelectors.map[tag] = "undefined"
                     \/ Matches(el, mapOrSelectors.map[tag])
  IN IF hit THEN TRUE
     ELSE IF el = topNode \/ ParentElement(el) = Null THEN FALSE
     ELSE findUp(ParentElement(el), mapOrSelectors, topNode)

\* setRef(ref, value) on a child's holder: a ref callback is called with the
\* value, a ref object gets it as its current; h is what the holders hold
setRef(ref, value, h) == [h EXCEPT ![ref] = value]

\* mutant: the node is kept in selfNodeRef only, the child's ref is passed over
refHandler_SelfOnly(ref, node, h) == h

\* refHandler(node), as far as the child's own ref goes:
\* children.ref && setRef(children.ref, node)
refHandler(ref, node, h) == IF ref # "none" THEN setRef(ref, node, h) ELSE h

\* useCallback(..., [disabled, ignoreTopNode, onOutsideClick, stopPropagation,
\* topNode]): the handler is a new function exactly when one of these changes,
\* and it closes over exactly these.
NewHandler(p) ==
  [ disabled |-> p.disabled,
    ignoreTopNode |-> p.ignoreTopNode,
    onOutsideClick |-> p.onOutsideClick,
    stopPropagation |-> p.stopPropagation,
    topNode |-> p.topNode ]

\* event.target instanceof Element ? event.target : undefined
EventSourceNode(e) == IF e.target \in Nodes THEN e.target ELSE Null

\* the `ignore` block of the handler: is the source ignored
IsIgnored(h, src) ==
  /\ src # Null
  /\ IgnoreTruthy(ignoreRef)
  /\ IF ignoreRef.kind = "fn"
     THEN src \in ignoreRef.sat
     ELSE findUp(src, ignoreRef,
                 IF Truthy(h.ignoreTopNode) THEN getNode(h.ignoreTopNode) ELSE Null)

\* what the `ignore` block does on the way
IgnoreLog(h, src) ==
  IF src # Null /\ IgnoreTruthy(ignoreRef) /\ ignoreRef.kind # "fn"
       /\ Truthy(h.ignoreTopNode)
  THEN getNodeLog(h.ignoreTopNode, "getNode(ignoreTopNode)")
  ELSE <<>>

\* mutant: the callback is called before the propagation is stopped
NotifyLog_CallFirst(h) ==
  IF h.stopPropagation THEN <<"onOutsideClick", "stopPropagation">>
  ELSE <<"onOutsideClick">>

\* stopPropagation && event.stopPropagation(); onOutsideClick(event)
NotifyLog(h) ==
  IF h.stopPropagation THEN <<"stopPropagation", "onOutsideClick">>
  ELSE <<"onOutsideClick">>

\* mutant: `if (eventSourceNode)`, topNode not tested
ScopeLog_NoTopNodeGuard(h, src) ==
  IF src # Null
  THEN LET node == IF Truthy(h.topNode) THEN getNode(h.topNode) ELSE Null
       IN IF node \in Nodes /\ Contains(node, src)
          THEN <<"getNode(topNode)">> \o NotifyLog(h) \o <<"return@137">>
          ELSE <<"getNode(topNode)", "return@137">>
  ELSE NotifyLog(h)

\* mutant: `if (node)`, node.contains(eventSourceNode) not tested
ScopeLog_NoContainsCheck(h, src) ==
  IF src # Null /\ Truthy(h.topNode)
  THEN LET node == getNode(h.topNode)
           got == getNodeLog(h.topNode, "getNode(topNode)")
       IN IF node = Null THEN got \o <<"return@137">>
          ELSE got \o NotifyLog(h) \o <<"return@137">>
  ELSE NotifyLog(h)

\* mutant: `if (topNode)`, the source not tested (a blur has no source)
ScopeLog_NoSourceGuard(h, src) ==
  IF Truthy(h.topNode)
  THEN LET node == getNode(h.topNode)
           got == getNodeLog(h.topNode, "getNode(topNode)")
       IN IF node \in Nodes /\ src # Null /\ Contains(node, src)
          THEN got \o NotifyLog(h) \o <<"return@137">>
          ELSE got \o <<"return@137">>
  ELSE NotifyLog(h)

\* mutant: the `return` of the topNode block is missing
ScopeLog_NoReturn(h, src) ==
  IF src # Null /\ Truthy(h.topNode)
  THEN LET node == getNode(h.topNode)
           got == getNodeLog(h.topNode, "getNode(topNode)")
       IN IF node = Null THEN got \o NotifyLog(h)
          ELSE IF node = RefObject THEN got \o <<"throw">>
          ELSE IF Contains(node, src) THEN got \o NotifyLog(h) \o NotifyLog(h)
          ELSE got \o NotifyLog(h)
  ELSE NotifyLog(h)

\* mutant: a topNode that resolves to nothing is treated as no topNode
ScopeLog_NullScopeNotifies(h, src) ==
  IF src # Null /\ Truthy(h.topNode)
  THEN LET node == getNode(h.topNode)
           got == getNodeLog(h.topNode, "getNode(topNode)")
       IN IF node = Null THEN got \o NotifyLog(h)
          ELSE IF node = RefObject THEN got \o <<"throw">>
          ELSE IF Contains(node, src) THEN got \o NotifyLog(h) \o <<"return@137">>
          ELSE got \o <<"return@137">>
  ELSE NotifyLog(h)

\* the topNode block and the tail of the handler
ScopeLog(h, src) ==
  IF src # Null /\ Truthy(h.topNode)
  THEN LET node == getNode(h.topNode)
           got == getNodeLog(h.topNode, "getNode(topNode)")
       IN IF node = Null THEN got \o <<"return@137">>
          ELSE IF node = RefObject THEN got \o <<"throw">>
          ELSE IF Contains(node, src) THEN got \o NotifyLog(h) \o <<"return@137">>
          ELSE got \o <<"return@137">>
  ELSE NotifyLog(h)

\* mutant: the click on the component itself is not filtered out
outsideClickHandlerRun_NoInsideCheck(h, e) ==
  LET src == EventSourceNode(e)
  IN IF h.disabled \/ selfNodeRef = Null THEN <<"return@107">>
     ELSE IF IsIgnored(h, src) THEN IgnoreLog(h, src) \o <<"return@125">>
     ELSE IgnoreLog(h, src) \o ScopeLog(h, src)

\* mutant: the topNode block comes before the ignore block
outsideClickHandlerRun_ScopeFirst(h, e) ==
  LET src == EventSourceNode(e)
  IN IF h.disabled \/ selfNodeRef = Null THEN <<"return@107">>
     ELSE IF src # Null /\ Contains(selfNodeRef, src) THEN <<"return@113">>
     ELSE IF src # Null /\ Truthy(h.topNode) THEN ScopeLog(h, src)
     ELSE IF IsIgnored(h, src) THEN IgnoreLog(h, src) \o <<"return@125">>
     ELSE IgnoreLog(h, src) \o NotifyLog(h)

\* mutant: `if (disabled) return`, selfNodeRef.current not tested
outsideClickHandlerRun_NoSelfNodeGuard(h, e) ==
  LET src == EventSourceNode(e)
  IN IF h.disabled THEN <<"return@107">>
     ELSE IF src # Null /\ selfNodeRef # Null /\ Contains(selfNodeRef, src)
       THEN <<"return@113">>
     ELSE IF IsIgnored(h, src) THEN IgnoreLog(h, src) \o <<"return@125">>
     ELSE IgnoreLog(h, src) \o ScopeLog(h, src)

\* mutant: an event without an element as its target is dropped
outsideClickHandlerRun_DropNoSource(h, e) ==
  LET src == EventSourceNode(e)
  IN IF h.disabled \/ selfNodeRef = Null THEN <<"return@107">>
     ELSE IF src = Null THEN <<"return@113">>
     ELSE IF Contains(selfNodeRef, src) THEN <<"return@113">>
     ELSE IF IsIgnored(h, src) THEN IgnoreLog(h, src) \o <<"return@125">>
     ELSE IgnoreLog(h, src) \o ScopeLog(h, src)

\* One run of the handler h on event e: the steps it takes, in order.
outsideClickHandlerRun(h, e) ==
  LET src == EventSourceNode(e)
  IN IF h.disabled \/ selfNodeRef = Null THEN <<"return@107">>
     ELSE IF src # Null /\ Contains(selfNodeRef, src) THEN <<"return@113">>
     ELSE IF IsIgnored(h, src) THEN IgnoreLog(h, src) \o <<"return@125">>
     ELSE IgnoreLog(h, src) \o ScopeLog(h, src)

Has(log, step) == \E i \in DOMAIN log : log[i] = step

Count(log, step) == Cardinality({i \in DOMAIN log : log[i] = step})

(***************************************************************************)
(* The host's event dispatch.                                              *)
(***************************************************************************)
\* mousedown and touchstart bubble, blur does not
Bubbles(kind) == kind \in {"mousedown", "touchstart"}

RECURSIVE PathFrom(_)
\* the bubbling path of an event: target, its ancestors, document, window
PathFrom(t) ==
  IF t = Window THEN <<Window>>
  ELSE IF t = Document THEN <<Document, Window>>
  ELSE IF ParentElement(t) = Null THEN <<t, Document, Window>>
  ELSE <<t>> \o PathFrom(ParentElement(t))

PropagationPath(e) == IF Bubbles(e.kind) THEN PathFrom(e.target) ELSE <<e.target>>

\* the handlers registered on target t for events of this kind
HandlersAt(t, kind) == {l.handler : l \in {x \in listeners : x.target = t /\ x.type = kind}}

\* the calls of onOutsideClick a run of handler h makes: onOutsideClick(event)
onOutsideClickCalls(h, e, steps) ==
  [c \in 1..Count(steps, "onOutsideClick") |-> [cb |-> h.onOutsideClick, event |-> e]]

\* one run of handler h on event e: its steps and its calls of the callback
HandlerRun(h, e) ==
  LET steps == outsideClickHandlerRun(h, e)
  IN [steps |-> steps, calls |-> onOutsideClickCalls(h, e, steps)]

RECURSIVE RunAll(_, _)
\* every handler of the set runs once
RunAll(hs, e) ==
  IF hs = {} THEN <<>>
  ELSE LET h == CHOOSE x \in hs : TRUE
       IN <<HandlerRun(h, e)>> \o RunAll(hs \ {h}, e)

RECURSIVE Deliver(_, _, _)
\* the event visits the targets of its path from position i on, until a
\* handler stops its propagation: the logs of all handler runs
Deliver(path, i, e) ==
  IF i > Len(path) THEN <<>>
  ELSE LET runs == RunAll(HandlersAt(path[i], e.kind), e)
       IN IF \E j \in DOMAIN runs : Has(runs[j].steps, "stopPropagation")
          THEN runs
          ELSE runs \o Deliver(path, i + 1, e)

\* the elements that take the focus
Focusable == {n \in Nodes : TagOf(n) = "li"}

\* the events the host dispatches: mousedown on an element or on the document,
\* touchstart on an element, blur on the window or on a focusable element
HostEvents ==
  {[kind |-> "mousedown", target |-> t] : t \in Nodes \cup {Document}}
    \cup {[kind |-> "touchstart", target |-> t] : t \in Nodes}
    \cup {[kind |-> "blur", target |-> t] : t \in Focusable \cup {Window}}

NoEvent == [kind |-> "none", target |-> Null, runs |-> <<>>]

RECURSIVE AllCalls(_, _)
AllCalls(runs, i) ==
  IF i > Len(runs) THEN <<>> ELSE runs[i].calls \o AllCalls(runs, i + 1)

\* the onOutsideClick calls made while the last event was dispatched
Calls == AllCalls(ev.runs, 1)

RECURSIVE SumWarn(_, _)
SumWarn(runs, i) ==
  IF i > Len(runs) THEN 0 ELSE Count(runs[i].steps, "warn") + SumWarn(runs, i + 1)

(***************************************************************************)
(* The effect (useEffect) and its cleanup.                                 *)
(***************************************************************************)
Registrations(node, kinds, blur, h) ==
  (IF node # Null
   THEN {[target |-> node, type |-> k, handler |-> h] : k \in kinds}
   ELSE {})
    \cup (IF blur THEN {[target |-> Window, type |-> "blur", handler |-> h]} ELSE {})

\* the cleanup `() => {}`
NoCleanup(h) == [node |-> Null, events |-> {}, blur |-> FALSE, handler |-> h]

\* mutant: an unresolved topNode falls back to the document
EffectNode_FallbackDocument(p) ==
  IF Truthy(p.topNode) /\ getNode(p.topNode) # Null THEN getNode(p.topNode) ELSE Document

\* the node the effect attaches to: topNode ? getNode(topNode) : document
EffectNode(p) == IF Truthy(p.topNode) THEN getNode(p.topNode) ELSE Document

\* node.addEventListener is not a function: the effect throws
EffectThrows(p) == ~p.disabled /\ EffectNode(p) = RefObject /\ p.events # {}

EffectWarnings(p) ==
  IF ~p.disabled /\ Truthy(p.topNode)
  THEN Count(getNodeLog(p.topNode, "getNode(topNode)"), "warn")
  ELSE 0

\* mutant: the effect does not return early when disabled
EffectAdds_NoDisabledGuard(p, h) ==
  IF EffectNode(p) = RefObject /\ p.events # {} THEN {}
  ELSE Registrations(EffectNode(p), p.events, p.windowBlurAsOutsideClick, h)

\* the listeners the effect body adds
EffectAdds(p, h) ==
  IF p.disabled \/ EffectThrows(p) THEN {}
  ELSE Registrations(EffectNode(p), p.events, p.windowBlurAsOutsideClick, h)

\* the cleanup the effect body returns
EffectCleanup(p, h) ==
  IF p.disabled \/ EffectThrows(p) THEN NoCleanup(h)
  ELSE [node |-> EffectNode(p), events |-> p.events,
        blur |-> p.windowBlurAsOutsideClick, handler |-> h]

\* mutant: the cleanup leaves the window's blur listener in place
CleanupRemoves_NoBlur(c) == Registrations(c.node, c.events, FALSE, c.handler)

\* the listeners a cleanup removes
CleanupRemoves(c) == Registrations(c.node, c.events, c.blur, c.handler)

(***************************************************************************)
(* The state machine.                                                      *)
(***************************************************************************)
\* the hooks of an instance that is not mounted hold nothing
NoHandler == NewHandler(DefaultProps)

\* findUp not applied yet
NoFound == [el |-> Null, rule |-> NoIgnore, stop |-> Null, result |-> FALSE]

Init ==
  /\ mounted = FALSE
  /\ props = DefaultProps
  /\ childNode = Null
  /\ topEl = Null
  /\ selfNodeRef = Null
  /\ ignoreRef = NoIgnore
  /\ outsideClickHandler = NoHandler
  /\ effect = NoCleanup(NoHandler)
  /\ listeners = {}
  /\ ev = NoEvent
  /\ warnings = 0
  /\ thrown = FALSE
  /\ childRef = "none"
  /\ held = [r \in RefHolders |-> Null]
  /\ found = NoFound

\* React unmounts the tree after an effect threw: refs are detached
Crash(left) ==
  /\ mounted' = FALSE
  /\ selfNodeRef' = Null
  /\ ignoreRef' = NoIgnore
  /\ outsideClickHandler' = NoHandler
  /\ effect' = NoCleanup(NoHandler)
  /\ listeners' = left
  /\ thrown' = TRUE
  /\ held' = refHandler(childRef, Null, held)

\* mutant: the effect has no dependency list and runs after every render
EffectReruns_EveryRender(p, first) == TRUE

\* the effect runs after the first render and after a render in which one of
\* [outsideClickHandler, disabled, topNode] changed; the handler changes with
\* its own dependencies, disabled and topNode among them
EffectReruns(p, first) == first \/ NewHandler(p) # outsideClickHandler

\* mutant: useRef(ignore) only, the ref is not refreshed by later renders
IgnoreRefOnRender_InitialOnly(p) == IF mounted THEN ignoreRef ELSE p.ignore

\* ignoreRef.current = ignore, in every render
IgnoreRefOnRender(p) == p.ignore

\* The render of the mounted component with props p, the commit of the
\* child's ref and the run of the effect when its dependencies changed.
Render(p, first) ==
  LET h == NewHandler(p)
      rerun == EffectReruns(p, first)
      left == IF rerun /\ ~first THEN listeners \ CleanupRemoves(effect) ELSE listeners
  IN /\ props' = p
     /\ ev' = NoEvent
     /\ warnings' = IF rerun THEN EffectWarnings(p) ELSE 0
     /\ UNCHANGED <<childNode, topEl, childRef, found>>
     /\ IF rerun /\ EffectThrows(p)
        THEN Crash(left)
        ELSE /\ mounted' = TRUE
             /\ selfNodeRef' = IF first THEN childNode ELSE selfNodeRef
             /\ held' = IF first THEN refHandler(childRef, childNode, held) ELSE held
             /\ ignoreRef' = IgnoreRefOnRender(p)
             /\ outsideClickHandler' = h
             /\ effect' = IF rerun THEN EffectCleanup(p, h) ELSE effect
             /\ listeners' = IF rerun THEN left \cup EffectAdds(p, h) ELSE listeners
             /\ thrown' = FALSE

\* no event is being dispatched
Idle == ev = NoEvent

Mount ==
  /\ Idle
  /\ ~mounted
  /\ Render(props, TRUE)

Unmount ==
  /\ Idle
  /\ mounted
  /\ mounted' = FALSE
  /\ selfNodeRef' = Null
  /\ ignoreRef' = NoIgnore
  /\ outsideClickHandler' = NoHandler
  /\ effect' = NoCleanup(NoHandler)
  /\ listeners' = listeners \ CleanupRemoves(effect)
  /\ held' = refHandler(childRef, Null, held)
  /\ ev' = NoEvent
  /\ warnings' = 0
  /\ thrown' = FALSE
  /\ UNCHANGED <<props, childNode, topEl, childRef, found>>

\* the parent passes new props: a re-render when mounted
NewProps(p) ==
  /\ Idle
  /\ p # props
  /\ IF mounted
     THEN Render(p, FALSE)
     ELSE /\ props' = p
          /\ ev' = NoEvent
          /\ warnings' = 0
          /\ thrown' = FALSE
          /\ UNCHANGED <<mounted, childNode, topEl, selfNodeRef, ignoreRef,
                         outsideClickHandler, effect, listeners,
                         childRef, held, found>>

SetDisabled == \E v \in BOOLEAN : NewProps([props EXCEPT !.disabled = v])

SetEvents == \E v \in EventsChoices : NewProps([props EXCEPT !.events = v])

SetStopPropagation == \E v \in BOOLEAN : NewProps([props EXCEPT !.stopPropagation = v])

SetTopNode == \E v \in TopNodeChoices : NewProps([props EXCEPT !.topNode = v])

SetIgnore == \E v \in IgnoreChoices : NewProps([props EXCEPT !.ignore = v])

SetIgnoreTopNode == \E v \in IgnoreTopNodeChoices : NewProps([props EXCEPT !.ignoreTopNode = v])

SetWindowBlur == \E v \in BOOLEAN : NewProps([props EXCEPT !.windowBlurAsOutsideClick = v])

\* refHandler: the child attaches, detaches or replaces its node
RefHandler ==
  \E n \in ChildChoices :
    /\ Idle
    /\ n # childNode
    /\ childNode' = n
    /\ selfNodeRef' = IF mounted THEN n ELSE selfNodeRef
    /\ held' = IF mounted THEN refHandler(childRef, n, held) ELSE held
    /\ ev' = NoEvent
    /\ warnings' = 0
    /\ thrown' = FALSE
    /\ UNCHANGED <<mounted, props, topEl, ignoreRef, outsideClickHandler, effect,
                   listeners, childRef, found>>

\* the parent passes a child element with another ref: the new refHandler
\* depends on it, so React calls the old refHandler with null and the new one
\* with the node
SetChildRef ==
  \E r \in ChildRefChoices :
    /\ Idle
    /\ r # childRef
    /\ childRef' = r
    /\ selfNodeRef' = IF mounted THEN childNode ELSE selfNodeRef
    /\ held' = IF mounted
               THEN refHandler(r, childNode, refHandler(childRef, Null, held))
               ELSE held
    /\ ev' = NoEvent
    /\ warnings' = 0
    /\ thrown' = FALSE
    /\ UNCHANGED <<mounted, props, childNode, topEl, ignoreRef, outsideClickHandler,
                   effect, listeners, found>>

\* findUp is applied to an element, a rule and a stop node
ApplyFindUp ==
  \E el \in Nodes : \E rule \in FindUpRules : \E stop \in FindUpStops :
    /\ found' = [el |-> el, rule |-> rule, stop |-> stop,
                 result |-> findUp(el, rule, stop)]
    /\ UNCHANGED <<mounted, props, childNode, topEl, selfNodeRef, ignoreRef,
                   outsideClickHandler, effect, listeners, ev, warnings, thrown,
                   childRef, held>>

\* the element with id "top" (the RefObject's element) appears or goes away
DomChange ==
  \E t \in TopElChoices :
    /\ Idle
    /\ t # topEl
    /\ topEl' = t
    /\ ev' = NoEvent
    /\ warnings' = 0
    /\ thrown' = FALSE
    /\ UNCHANGED <<mounted, props, childNode, selfNodeRef, ignoreRef,
                   outsideClickHandler, effect, listeners, childRef, held, found>>

\* the host dispatches an event; the registered handlers run
Dispatch ==
  \E e \in HostEvents :
    LET runs == Deliver(PropagationPath(e), 1, e)
    IN /\ Idle
       /\ ev' = [kind |-> e.kind, target |-> e.target, runs |-> runs]
       /\ warnings' = SumWarn(runs, 1)
       /\ thrown' = \E j \in DOMAIN runs : Has(runs[j].steps, "throw")
       /\ UNCHANGED <<mounted, props, childNode, topEl, selfNodeRef, ignoreRef,
                      outsideClickHandler, effect, listeners, childRef, held, found>>

\* the dispatch is over: the host drops the event
EndDispatch ==
  /\ ~Idle
  /\ ev' = NoEvent
  /\ warnings' = 0
  /\ thrown' = FALSE
  /\ UNCHANGED <<mounted, props, childNode, topEl, selfNodeRef, ignoreRef,
                 outsideClickHandler, effect, listeners, childRef, held, found>>

Next ==
  \/ Mount
  \/ Unmount
  \/ SetDisabled
  \/ SetEvents
  \/ SetStopPropagation
  \/ SetTopNode
  \/ SetIgnore
  \/ SetIgnoreTopNode
  \/ SetWindowBlur
  \/ RefHandler
  \/ DomChange
  \/ Dispatch
  \/ EndDispatch

Spec == Init /\ [][Next]_vars

\* The ref bridge on its own: the life cycle, the child's node and the child's
\* ref change, under every topNode (an effect that throws unmounts the tree).
NextRef ==
  \/ Mount
  \/ Unmount
  \/ RefHandler
  \/ SetChildRef
  \/ SetDisabled
  \/ SetTopNode
  \/ DomChange

SpecRef == Init /\ [][NextRef]_vars

\* findUp on its own, applied to every element, rule and stop node
NextFindUp == ApplyFindUp

SpecFindUp == Init /\ [][NextFindUp]_vars

(***************************************************************************)
(* Vocabulary of the properties, stated on the configuration (the props)   *)
(* and on the tree, not on the handler's own computation.                  *)
(***************************************************************************)
\* the source of the event being dispatched: its target when that is an element
Src == IF ev.target \in Nodes THEN ev.target ELSE Null

\* the event dispatched, as the host made it
RawEvent == [kind |-> ev.kind, target |-> ev.target]

\* at least one handler of the instance ran on the event
Classified == ev.runs # <<>>

\* element n itself satisfies the ignore rule
Satisfies(n, rule) ==
  CASE rule.kind = "sel" -> Matches(n, rule.sel)
    [] rule.kind = "map" ->
         /\ TagOf(n) \in DOMAIN rule.map
         /\ rule.map[TagOf(n)] = "undefined" \/ Matches(n, rule.map[TagOf(n)])
    [] rule.kind = "fn" -> n \in rule.sat
    [] OTHER -> FALSE

\* the element a reference resolves to, Null when it resolves to none
ResolvedElement(ref) ==
  CASE ref.kind = "id" /\ ref.id = "top" -> topEl
    [] ref.kind = "ref" -> topEl
    [] ref.kind = "node" -> ref.node
    [] OTHER -> Null

\* the elements from src upwards, up to and including the bound when the
\* bound is src or an ancestor of it, up to the root element otherwise
WalkSet(src, bound) ==
  {a \in Nodes : /\ Contains(a, src)
                 /\ (bound \in Nodes /\ Contains(bound, src)) => Contains(bound, a)}

\* the configured ignore rule excludes the source
RuleIgnores(src) ==
  IF props.ignore.kind = "fn" THEN src \in props.ignore.sat
  ELSE \E a \in WalkSet(src, ResolvedElement(props.ignoreTopNode)) :
         Satisfies(a, props.ignore)

\* the scope region: the element topNode resolves to
Scope == ResolvedElement(props.topNode)

Watched == selfNodeRef

OutsideWatched == Watched \in Nodes /\ Src \in Nodes /\ ~Contains(Watched, Src)

StepTaken(step) == \E j \in DOMAIN ev.runs : Has(ev.runs[j].steps, step)

(***************************************************************************)
(* C1..C10                                                                 *)
(***************************************************************************)
\* C1: an event whose source is the watched node or a descendant of it never
\* invokes onOutsideClick, whatever ignore, topNode and stopPropagation are.
C1_InsideIsDropped ==
  (~Idle /\ Watched \in Nodes /\ Src \in Nodes /\ Contains(Watched, Src))
    => Calls = <<>>

\* a handler ran on an event from a strict descendant of the watched node
C1_Witness ==
  /\ ~Idle /\ Classified
  /\ Watched \in Nodes /\ Src \in Nodes
  /\ Src # Watched /\ Contains(Watched, Src)
  /\ StepTaken("return@113")

\* C2: enabled, watched node attached, no topNode: an event that reaches the
\* document listener from an element outside the watched node that the ignore
\* rule does not exclude invokes onOutsideClick exactly once, with that event.
C2_OutsideIsNotified ==
  (/\ ~Idle /\ mounted /\ ~props.disabled
   /\ props.topNode = NoRef
   /\ Bubbles(ev.kind) /\ ev.kind \in effect.events
   /\ OutsideWatched
   /\ ~RuleIgnores(Src))
    => Calls = <<[cb |-> props.onOutsideClick, event |-> RawEvent]>>

\* such an event was notified although an ignore rule is configured
C2_Witness ==
  /\ ~Idle /\ mounted /\ ~props.disabled
  /\ props.topNode = NoRef
  /\ props.ignore.kind = "sel"
  /\ OutsideWatched
  /\ ~RuleIgnores(Src)
  /\ Len(Calls) = 1

\* C3: with a topNode that resolves to an element, onOutsideClick is invoked
\* for an event from an element only if that element is inside the scope
\* region and outside the watched node; a source outside the region is dropped.
C3_OutOfScopeIsDropped ==
  (~Idle /\ mounted /\ Truthy(props.topNode) /\ Scope \in Nodes /\ Src \in Nodes)
    => (Calls # <<>> => Contains(Scope, Src) /\ OutsideWatched)

\* the handler resolved the scope for a source outside it and returned
C3_Witness ==
  /\ ~Idle /\ Classified /\ ~props.disabled
  /\ Truthy(props.topNode) /\ Scope \in Nodes
  /\ OutsideWatched
  /\ ~Contains(Scope, Src)
  /\ StepTaken("getNode(topNode)")
  /\ Calls = <<>>

\* C4: an event whose source the ignore rule excludes never invokes
\* onOutsideClick, whatever topNode is, and the handler does not resolve
\* topNode for it: the ignore check comes first.
C4_IgnoredIsDropped ==
  (~Idle /\ mounted /\ Src \in Nodes /\ RuleIgnores(Src))
    => Calls = <<>> /\ ~StepTaken("getNode(topNode)")

\* an ignored source outside the watched node and inside a resolved scope
C4_Witness ==
  /\ ~Idle /\ Classified /\ ~props.disabled
  /\ OutsideWatched
  /\ RuleIgnores(Src)
  /\ Truthy(props.topNode) /\ Scope \in Nodes /\ Contains(Scope, Src)
  /\ StepTaken("return@125")

\* C5: while disabled is true no listener of the instance is registered on
\* any target and no event invokes onOutsideClick.
C5_DisabledIsSilent == props.disabled => listeners = {} /\ Calls = <<>>

\* an event from outside the watched node while the mounted instance is disabled
C5_Witness ==
  /\ mounted /\ props.disabled /\ props.windowBlurAsOutsideClick
  /\ ~Idle /\ OutsideWatched

\* the one call a notified event makes: the callback of the props, the raw event
TheCall == <<[cb |-> props.onOutsideClick, event |-> RawEvent]>>

WindowBlur == ~Idle /\ ev.kind = "blur" /\ ev.target = Window

\* C6, as stated: with windowBlurAsOutsideClick true (and the blur listener
\* attached with it) every window blur event invokes onOutsideClick
\* unconditionally, the watched node not being consulted.
C6_BlurAlwaysNotifies ==
  (mounted /\ props.windowBlurAsOutsideClick /\ effect.blur /\ WindowBlur)
    => Calls # <<>>

\* C6, amended: enabled, watched node attached and the blur listener
\* registered on the window by the last run of the effect: a window blur event
\* invokes onOutsideClick exactly once with that event, whatever the ignore
\* rule and topNode are.
C6_BlurNotifiesWhenAttached ==
  (mounted /\ ~props.disabled /\ Watched \in Nodes /\ effect.blur /\ WindowBlur)
    => Calls = TheCall

\* a window blur notified with an ignore rule and a topNode configured
C6_Witness ==
  /\ mounted /\ ~props.disabled /\ Watched \in Nodes /\ effect.blur /\ WindowBlur
  /\ props.ignore # NoIgnore
  /\ Truthy(props.topNode)
  /\ Len(Calls) = 1

\* C7: while no watched node is attached no event of any kind invokes
\* onOutsideClick, a window blur with windowBlurAsOutsideClick included.
C7_NoWatchedNodeNoCall == Watched = Null => Calls = <<>>

\* the blur listener ran on a window blur while no node was attached
C7_Witness ==
  /\ mounted /\ ~props.disabled /\ props.windowBlurAsOutsideClick
  /\ Watched = Null
  /\ WindowBlur /\ Classified

\* topNode is a non-empty id that no element of the tree carries
UnknownTopId ==
  /\ props.topNode.kind = "id"
  /\ props.topNode.id # ""
  /\ GetElementById(props.topNode.id) = Null

\* C8, as stated: with an id that is not in the tree the listeners are those
\* of an instance without topNode: on the document.
C8_FallsBackToDocument ==
  (mounted /\ ~props.disabled /\ UnknownTopId)
    => listeners = Registrations(Document, effect.events, effect.blur, outsideClickHandler)

\* C8, amended: with a non-empty id that is not in the tree, the run of the
\* effect warns and attaches no listener to the document or to an element
\* (the window blur listener only); no listener is on the document, every
\* event from an element is dropped, and a handler that resolves topNode warns.
C8_UnknownIdDetectsNothing ==
  /\ [](mounted /\ UnknownTopId
          => /\ \A l \in listeners : l.target # Document
             /\ Src \in Nodes => Calls = <<>>
             /\ StepTaken("getNode(topNode)") => warnings >= 1)
  /\ [][ (/\ mounted' /\ ~props'.disabled /\ UnknownTopId'
          /\ ~mounted \/ outsideClickHandler' # outsideClickHandler)
           => /\ warnings' >= 1
              /\ \A l \in listeners' : l.target = Window ]_vars

\* the effect has just run with the unknown id: it warned, nothing is attached
C8_Witness ==
  /\ mounted /\ ~props.disabled /\ UnknownTopId
  /\ Idle /\ warnings = 1
  /\ effect.node = Null
  /\ listeners = {}

\* C9: one dispatched event never makes two calls of onOutsideClick.
C9_AtMostOneCall == Len(Calls) <= 1

\* a blur notified once while blur listeners sit on two targets
C9_Witness ==
  /\ ~Idle /\ ev.kind = "blur" /\ Len(Calls) = 1
  /\ ~props.stopPropagation
  /\ \E a \in listeners : \E b \in listeners :
       a.type = "blur" /\ b.type = "blur" /\ a.target # b.target

\* C10, as stated: without ignoreTopNode, for each form of the ignore rule, an
\* event whose source is a descendant of an element that satisfies the rule
\* does not invoke onOutsideClick.
C10_IgnoreCoversChildren ==
  (/\ ~Idle /\ mounted /\ props.ignoreTopNode = NoRef /\ Src \in Nodes
   /\ \E a \in Nodes : Contains(a, Src) /\ Satisfies(a, props.ignore))
    => Calls = <<>>

(***************************************************************************)
(* C11..C20                                                                *)
(***************************************************************************)
\* C11: every registration is paired with its deregistration: the listeners
\* of the instance are at all times exactly the (target, kind, handler)
\* entries the last run of the effect added, which are the entries its cleanup
\* removes, whatever the props and the tree have become since; once the
\* instance is unmounted none of its listeners remains on any target.
C11_RegistrationsArePaired ==
  /\ listeners = Registrations(effect.node, effect.events, effect.blur, effect.handler)
  /\ ~mounted => listeners = {}

\* about to be torn down: listeners sit on an element that topNode no longer
\* resolves to, for kinds and a blur setting the props no longer have
C11_Witness ==
  /\ mounted /\ Idle
  /\ props.topNode.kind \in {"id", "ref"}
  /\ effect.node \in Nodes /\ effect.node # topEl
  /\ effect.events # props.events
  /\ effect.blur /\ ~props.windowBlurAsOutsideClick
  /\ \E l \in listeners : l.target = effect.node

\* C12, as stated: no run of a handler on an event ends in an error, whatever
\* topNode and ignoreTopNode are.
C12_HandlerNeverThrows == ~Idle => ~thrown

\* C13: the ref bridge duplicates the delivery: after any sequence of mounts,
\* unmounts, attachments and detachments of the child's node and changes of
\* the child's own ref, the holder the child currently carries (ref callback
\* or ref object) holds the value selfNodeRef.current holds, node or null.
C13_ChildRefHoldsWatchedNode == childRef # "none" => held[childRef] = selfNodeRef

\* the child's ref object holds the attached node while the ref callback the
\* child carried before has been given null
C13_Witness ==
  /\ mounted
  /\ childRef = "object"
  /\ selfNodeRef \in Nodes
  /\ held["object"] = selfNodeRef
  /\ held["callback"] = Null

\* C14, as stated: an event whose target is not an element (no source node)
\* never invokes onOutsideClick.
C14_NoSourceIsDropped == (~Idle /\ Src = Null) => Calls = <<>>

\* C14, amended: an event whose target is not an element skips the inside,
\* ignore and topNode tests: a handler that runs on it invokes onOutsideClick
\* exactly once with that event when a watched node is attached, and makes no
\* call when none is attached.
C14_NoSourceIsNotified ==
  (~Idle /\ mounted /\ Src = Null /\ Classified)
    => Calls = IF Watched \in Nodes THEN TheCall ELSE <<>>

\* a mousedown on the document itself was notified, an ignore rule being set
C14_Witness ==
  /\ ~Idle /\ mounted /\ Classified
  /\ ev.kind = "mousedown" /\ ev.target = Document
  /\ Watched \in Nodes
  /\ props.ignore.kind = "map"
  /\ Len(Calls) = 1

\* C15: with a topNode that resolves to no element, an event from an element
\* never invokes onOutsideClick; when topNode is an id that is not in the tree
\* the handler that gets as far as resolving it warns and returns, without
\* an error.
C15_UnresolvedScopeIsDropped ==
  (~Idle /\ mounted /\ Truthy(props.topNode) /\ Scope = Null /\ Src \in Nodes)
    => /\ Calls = <<>>
       /\ props.topNode.kind = "id"
            => /\ ~thrown
               /\ StepTaken("getNode(topNode)")
                    => StepTaken("warn") /\ StepTaken("return@137")

\* a handler left on an element resolved topNode anew, found no element for
\* the id and returned, for a source outside the watched node and not ignored
C15_Witness ==
  /\ ~Idle /\ mounted /\ ~props.disabled /\ Classified
  /\ UnknownTopId
  /\ OutsideWatched
  /\ ~RuleIgnores(Src)
  /\ StepTaken("getNode(topNode)")
  /\ StepTaken("return@137")
  /\ Calls = <<>>

\* C16: in every run of a handler, a call of onOutsideClick is immediately
\* preceded by event.stopPropagation() when stopPropagation is true, and the
\* call is made with the dispatched event; with stopPropagation false no run
\* stops the propagation; a run that does not call onOutsideClick does not
\* stop the propagation.
C16_StopThenNotify ==
  \A j \in DOMAIN ev.runs :
    LET steps == ev.runs[j].steps
    IN /\ \A i \in DOMAIN steps :
            (steps[i] = "onOutsideClick" /\ props.stopPropagation)
              => i > 1 /\ steps[i - 1] = "stopPropagation"
       /\ \A i \in DOMAIN steps :
            steps[i] = "stopPropagation"
              => /\ props.stopPropagation
                 /\ i < Len(steps) /\ steps[i + 1] = "onOutsideClick"
       /\ \A c \in DOMAIN ev.runs[j].calls : ev.runs[j].calls[c].event = RawEvent

\* a handler on the scope element stopped the propagation and notified
C16_Witness ==
  /\ ~Idle /\ mounted /\ props.stopPropagation
  /\ Truthy(props.topNode) /\ Src \in Nodes
  /\ StepTaken("stopPropagation")
  /\ Len(Calls) = 1

\* C17: findUp(el, rule, stop) is true exactly when an element of the parent
\* chain from el up to and including stop (up to the root element when stop is
\* absent, not an element or not an ancestor of el) satisfies the rule: for a
\* selector it matches it, for a tag map its tag is a key whose value is
\* absent or a selector it matches.  The stop node is tested, no element
\* above it is.
C17_FindUpWalksToStop ==
  found.el \in Nodes
    => found.result = (\E a \in WalkSet(found.el, found.stop) : Satisfies(a, found.rule))

\* the walk from element 5 stopped at its parent 2: the root, a div the map
\* accepts, was not tested
C17_Witness ==
  /\ found.el = 5 /\ found.stop = 2
  /\ found.rule = MapIgnore([t \in {"div"} |-> "undefined"])
  /\ Satisfies(1, found.rule)
  /\ ~found.result

\* a re-render in which only ignore and / or ignoreTopNode changed
OnlyIgnorePropsChange ==
  /\ mounted /\ mounted'
  /\ props' # props
  /\ [props' EXCEPT !.ignore = props.ignore, !.ignoreTopNode = props.ignoreTopNode] = props

C19_LatestIgnoreRuleApplies ==
  /\ mounted => /\ ignoreRef = props.ignore
                /\ \A l \in listeners : l.handler.ignoreTopNode = props.ignoreTopNode
  /\ (~Idle /\ mounted /\ Classified /\ OutsideWatched)
       => (StepTaken("return@125") <=> RuleIgnores(Src))

\* re-rendered since the effect last ran, a tag map and a stop id in force:
\* an event from outside the watched node is dropped by the ignore block
C19_Witness ==
  /\ ~Idle /\ mounted /\ Classified /\ OutsideWatched
  /\ effect.events # props.events
  /\ props.ignore.kind = "map"
  /\ props.ignoreTopNode.kind = "id"
  /\ RuleIgnores(Src)
  /\ StepTaken("return@125")

\* C20, as stated: while the instance is enabled and attached to the target
\* topNode resolves to (the document without topNode), its listeners are the
\* current handler on that target for exactly the props' events, and on the
\* window for blur exactly when the props' windowBlurAsOutsideClick is true.
C20_ListenersFollowProps ==
  (/\ mounted /\ ~props.disabled
   /\ EffectNode(props) \in Nodes \cup {Document}
   /\ effect.node = EffectNode(props))
    => listeners = Registrations(EffectNode(props), props.events,
                                 props.windowBlurAsOutsideClick, outsideClickHandler)

(***************************************************************************)
(* C21                                                                     *)
(***************************************************************************)
\* C21, as stated: while the instance is enabled with a topNode, its
\* listeners for the configured events sit on the element topNode resolves to
\* now, and on no other element or the document, also after the id or the
\* RefObject has come to resolve to another element, or to an element at all,
\* with the topNode prop unchanged.
C21_AttachedToCurrentScope ==
  (mounted /\ ~props.disabled /\ Truthy(props.topNode))
    => /\ \A l \in listeners : l.target # Window => l.target = Scope
       /\ (Scope \in Nodes /\ effect.events # {})
            => \E l \in listeners : l.target = Scope

====
